---- MODULE Spec2Model ----
(***************************************************************************)
(* A model of the e-commerce API (api/views.py, api/serializers.py): the   *)
(* store behind the viewsets, one action per (viewset, action) handler,    *)
(* the permission routing of every get_permissions, and the serializers'   *)
(* validation and field selection.                                         *)
(*                                                                         *)
(* api/models.py and api/permissions.py are not part of the sources at     *)
(* hand: the model fields and the IsUser / IsVendor / IsAVendor predicates *)
(* are written from the specification and are marked so where they occur.  *)
(***************************************************************************)
EXTENDS Integers, Sequences, FiniteSets, TLC

\* ---------------------------------------------------------------- bounds
MaxUsers == 4
MaxVendors == 2
MaxProducts == 2
MaxSizes == 2
MaxQty == 2
MaxImages == 2
MaxCats == 2
MaxOrders == 2
MaxItems == 2
MaxCarts == 1

\* request.user of an unauthenticated request (AnonymousUser); also "no row".
Anonymous == 0

UserIds == 1..MaxUsers
VendorIds == 1..MaxVendors
ProductIds == 1..MaxProducts
SizeIds == 1..MaxSizes
ImageIds == 1..MaxImages
CatIds == 1..MaxCats
OrderIds == 1..MaxOrders
ItemIds == 1..MaxItems
CartIds == 1..MaxCarts

VARIABLES
    users,       \* User rows: id -> [exists, is_active, is_staff, is_vendor]
    vendors,     \* Vendor rows: id -> [exists, name, owner]
    products,    \* Product rows: id -> [exists, vendor, quantity, is_available]
    sizes,       \* Size rows: id -> [exists, variant, quantity]
    images,      \* Image rows: id -> [exists, product]
    categories,  \* Category rows: id -> [exists, name]
    orders,      \* Order rows: id -> [exists, user, cart]
    orderItems,  \* OrderItem rows: id -> [exists, user, product, quantity]
    inflight,    \* worker -> a Size write between is_valid() and save(), or idle
    ser,         \* the serializer constructed last: [cls, dynamic_fields, field_names]
    last         \* the request answered last and its response

store == <<users, vendors, products, sizes, images, categories, orders, orderItems>>
vars == <<users, vendors, products, sizes, images, categories, orders, orderItems,
          inflight, ser, last>>

\* ------------------------------------------------------------- responses
Response(view, action, c, pk, data, status) ==
    [view |-> view, action |-> action, caller |-> c, pk |-> pk, data |-> data,
     status |-> status]

NoData == <<>>

FreeIds(table) == {i \in DOMAIN table : ~table[i].exists}
NewId(table) == CHOOSE i \in FreeIds(table) : \A j \in FreeIds(table) : i <= j

\* A caller is anonymous or an existing, active user holding a token.
IsCaller(c) == c = Anonymous \/ (c \in UserIds /\ users[c].exists /\ users[c].is_active)
AllCallers == {Anonymous} \cup UserIds

\* ----------------------------------------------------------- permissions
\* rest_framework.permissions, request level.
AllowAny_has_permission(c) == TRUE
IsAuthenticated_has_permission(c) == c # Anonymous
IsAdminUser_has_permission(c) == c # Anonymous /\ users[c].is_staff

\* api/permissions.py (from the specification): IsUser is "the owning /
\* authenticated User", IsVendor and IsAVendor "vendor-owner only".
IsUser_has_permission(c) == c # Anonymous
IsUser_has_object_permission(c, owner) == c # Anonymous /\ owner = c
IsVendor_has_permission(c) == c # Anonymous /\ users[c].is_vendor
IsVendor_has_object_permission(c, owner) == c # Anonymous /\ owner = c
IsAVendor_has_permission(c) == c # Anonymous /\ users[c].is_vendor

has_permission(p, c) ==
    CASE p = "AllowAny" -> AllowAny_has_permission(c)
      [] p = "IsAuthenticated" -> IsAuthenticated_has_permission(c)
      [] p = "IsAdminUser" -> IsAdminUser_has_permission(c)
      [] p = "IsUser" -> IsUser_has_permission(c)
      [] p = "IsVendor" -> IsVendor_has_permission(c)
      [] p = "IsAVendor" -> IsAVendor_has_permission(c)

has_object_permission(p, c, owner) ==
    CASE p = "IsUser" -> IsUser_has_object_permission(c, owner)
      [] p = "IsVendor" -> IsVendor_has_object_permission(c, owner)
      [] OTHER -> TRUE

\* get_permissions returns one permission or one permissions.OR of two: a set of
\* alternatives, of which one must pass.
check_permissions(perms, c) == \E p \in perms : has_permission(p, c)
check_object_permissions(perms, c, owner) ==
    \E p \in perms : has_permission(p, c) /\ has_object_permission(p, c, owner)

\* GenericAPIView.get_object's outcome for a caller who passed check_permissions.
get_object(queryset, perms, c, pk, owner) ==
    IF pk \notin queryset THEN "404"
    ELSE IF ~check_object_permissions(perms, c, owner) THEN "denied"
    ELSE "ok"

\* A request's body is read by the serializer, after check_permissions and (for a
\* detail route) get_object: a request that is answered before that is sent with an
\* empty body, every other body being answered alike.
Bodies(reads_body, inputs) == IF reads_body THEN inputs ELSE {<<>>}
Reads_body(queryset, perms, c, pk, owner) ==
    check_permissions(perms, c) /\ get_object(queryset, perms, c, pk, owner) = "ok"

\* ModelViewSet.destroy, retrieve and list, the same for every viewset; each
\* yields the response status.
Retrieve_status(queryset, perms, c, pk, owner) ==
    IF ~check_permissions(perms, c) THEN "denied"
    ELSE IF get_object(queryset, perms, c, pk, owner) # "ok"
    THEN get_object(queryset, perms, c, pk, owner)
    ELSE "200"

Destroy_status(queryset, perms, c, pk, owner) ==
    IF ~check_permissions(perms, c) THEN "denied"
    ELSE IF get_object(queryset, perms, c, pk, owner) # "ok"
    THEN get_object(queryset, perms, c, pk, owner)
    ELSE "204"

List_response(view, perms, c, queryset) ==
    IF ~check_permissions(perms, c)
    THEN Response(view, "list", c, 0, NoData, "denied")
    ELSE Response(view, "list", c, 0, [listing |-> queryset], "200")

\* ------------------------------------------------------------ serializers
\* ModelSerializer.create / update: the validated attributes laid over a row.
Merge(f, g) == [x \in (DOMAIN f) \cup (DOMAIN g) |-> IF x \in DOMAIN f THEN f[x] ELSE g[x]]
Without(f, names) == [x \in (DOMAIN f) \ names |-> f[x]]
Overlay(row, attrs) == [x \in DOMAIN row |-> IF x \in DOMAIN attrs THEN attrs[x] ELSE row[x]]

\* ------------------------------------------------------------------ users
FlagNames == {"is_active", "is_staff", "is_vendor"}
FlagInputs == {<<>>} \cup {[f \in FlagNames |-> b] : b \in BOOLEAN}

\* A queryset that forgets the is_active filter: User.objects.all().
UserQueryset_unfiltered == {u \in UserIds : users[u].exists}

\* User.objects.filter(is_active=True)
UserQueryset == {u \in UserIds : users[u].exists /\ users[u].is_active}

\* extra_kwargs that forgets to make is_staff read_only.
UserSerializer_read_only_without_is_staff == {"is_active", "is_vendor"}

\* UserSerializer.Meta.extra_kwargs: the three flags are read_only.
UserSerializer_read_only == {"is_active", "is_staff", "is_vendor"}
UserSerializer_validated_data(d) == Without(d, UserSerializer_read_only)

\* The User model's defaults (from the specification: active on signup).
User_defaults ==
    [exists |-> TRUE, is_active |-> TRUE, is_staff |-> FALSE, is_vendor |-> FALSE]

UserViewSet_get_permissions(action) ==
    IF action = "create" THEN {"AllowAny"}
    ELSE IF action = "retrieve" THEN {"IsUser", "IsAdminUser"}
    ELSE IF action = "list" THEN {"IsAdminUser"}
    ELSE {"IsUser"}

UserViewSet_create(c, d) ==
    LET perms == UserViewSet_get_permissions("create") IN
    /\ IsCaller(c)
    /\ IF ~check_permissions(perms, c)
       THEN /\ last' = Response("users", "create", c, 0, d, "denied")
            /\ UNCHANGED users
       ELSE /\ FreeIds(users) # {}
            /\ LET attrs == UserSerializer_validated_data(d)
                   id == NewId(users)
               IN /\ users' = [users EXCEPT ![id] = Overlay(User_defaults, attrs)]
                  /\ last' = Response("users", "create", c, id, d, "201")
    /\ UNCHANGED <<vendors, products, sizes, images, categories, orders, orderItems,
                   inflight, ser>>

\* ModelViewSet.update and partial_update (PUT needs every required field).
UserViewSet_write(action, c, pk, d) ==
    LET perms == UserViewSet_get_permissions(action)
        got == get_object(UserQueryset, perms, c, pk, pk)
    IN
    /\ IsCaller(c)
    /\ IF ~check_permissions(perms, c)
       THEN /\ last' = Response("users", action, c, pk, d, "denied")
            /\ UNCHANGED users
       ELSE IF got # "ok"
       THEN /\ last' = Response("users", action, c, pk, d, got)
            /\ UNCHANGED users
       ELSE /\ users' = [users EXCEPT ![pk] = Overlay(@, UserSerializer_validated_data(d))]
            /\ last' = Response("users", action, c, pk, d, "200")
    /\ UNCHANGED <<vendors, products, sizes, images, categories, orders, orderItems,
                   inflight, ser>>

UserViewSet_destroy(c, pk) ==
    LET perms == UserViewSet_get_permissions("destroy")
        got == get_object(UserQueryset, perms, c, pk, pk)
    IN
    /\ IsCaller(c)
    /\ IF ~check_permissions(perms, c)
       THEN /\ last' = Response("users", "destroy", c, pk, NoData, "denied")
            /\ UNCHANGED users
       ELSE IF got # "ok"
       THEN /\ last' = Response("users", "destroy", c, pk, NoData, got)
            /\ UNCHANGED users
       ELSE /\ users' = [users EXCEPT ![pk].is_active = FALSE]
            /\ last' = Response("users", "destroy", c, pk, NoData, "204")
    /\ UNCHANGED <<vendors, products, sizes, images, categories, orders, orderItems,
                   inflight, ser>>

UserViewSet_retrieve(c, pk) ==
    LET perms == UserViewSet_get_permissions("retrieve")
        got == get_object(UserQueryset, perms, c, pk, pk)
    IN
    /\ IsCaller(c)
    /\ last' = Response("users", "retrieve", c, pk, NoData,
                        IF ~check_permissions(perms, c) THEN "denied"
                        ELSE IF got # "ok" THEN got ELSE "200")
    /\ UNCHANGED <<store, inflight, ser>>

UserViewSet_list(c) ==
    LET perms == UserViewSet_get_permissions("list") IN
    /\ IsCaller(c)
    /\ last' = List_response("users", perms, c, UserQueryset)
    /\ UNCHANGED <<store, inflight, ser>>

\* ---------------------------------------------------------------- vendors
VendorInputs ==
    {[name |-> n] : n \in {"a", "b"}} \cup {[name |-> n, owner |-> 1] : n \in {"a", "b"}}
VendorPatchInputs == VendorInputs \cup {[owner |-> 1]}

\* The Vendor model's fields (from the specification: a storefront with an owner).
Vendor_fields == {"id", "name", "owner"}
Vendor_defaults == [exists |-> TRUE, name |-> "", owner |-> Anonymous]

VendorQueryset == {v \in VendorIds : vendors[v].exists}

\* VendorSerializer: owner = ReadOnlyField(source="owner.id").
VendorSerializer_read_only == {"owner"}
VendorSerializer_validated_data(d) == Without(d, VendorSerializer_read_only)

VendorViewSet_get_permissions(action) ==
    IF action \in {"list", "retrieve"} THEN {"AllowAny"}
    ELSE IF action = "create" THEN {"IsAuthenticated"}
    ELSE {"IsUser", "IsAdminUser"}

\* serializer.save(user=user): the keyword arguments join validated_data.
VendorViewSet_perform_create_attrs(c, d) ==
    Merge([user |-> c], VendorSerializer_validated_data(d))

\* perform_create: Vendor.objects.create(**attrs) raises TypeError on a keyword
\* that is no field of the model; the promotion of the caller follows the save.
VendorViewSet_create(c, d) ==
    LET perms == VendorViewSet_get_permissions("create")
        attrs == VendorViewSet_perform_create_attrs(c, d)
    IN
    /\ IsCaller(c)
    /\ IF ~check_permissions(perms, c)
       THEN /\ last' = Response("vendors", "create", c, 0, d, "denied")
            /\ UNCHANGED <<users, vendors>>
       ELSE IF ~(DOMAIN attrs \subseteq Vendor_fields)
       THEN /\ last' = Response("vendors", "create", c, 0, d, "500")
            /\ UNCHANGED <<users, vendors>>
       ELSE /\ FreeIds(vendors) # {}
            /\ LET id == NewId(vendors) IN
               /\ vendors' = [vendors EXCEPT ![id] = Overlay(Vendor_defaults, attrs)]
               /\ last' = Response("vendors", "create", c, id, d, "201")
            /\ users' = IF ~users[c].is_vendor
                        THEN [users EXCEPT ![c].is_vendor = TRUE]
                        ELSE users
    /\ UNCHANGED <<products, sizes, images, categories, orders, orderItems, inflight, ser>>

VendorOwner(pk) == IF pk \in VendorIds THEN vendors[pk].owner ELSE Anonymous

VendorViewSet_write(action, c, pk, d) ==
    LET perms == VendorViewSet_get_permissions(action)
        got == get_object(VendorQueryset, perms, c, pk, VendorOwner(pk))
    IN
    /\ IsCaller(c)
    /\ IF ~check_permissions(perms, c)
       THEN /\ last' = Response("vendors", action, c, pk, d, "denied")
            /\ UNCHANGED vendors
       ELSE IF got # "ok"
       THEN /\ last' = Response("vendors", action, c, pk, d, got)
            /\ UNCHANGED vendors
       ELSE /\ vendors' = [vendors EXCEPT ![pk] = Overlay(@, VendorSerializer_validated_data(d))]
            /\ last' = Response("vendors", action, c, pk, d, "200")
    /\ UNCHANGED <<users, products, sizes, images, categories, orders, orderItems,
                   inflight, ser>>

Vendor_absent == [exists |-> FALSE, name |-> "", owner |-> Anonymous]

VendorViewSet_destroy(c, pk) ==
    LET status == Destroy_status(VendorQueryset, VendorViewSet_get_permissions("destroy"),
                                 c, pk, VendorOwner(pk))
    IN
    /\ IsCaller(c)
    /\ last' = Response("vendors", "destroy", c, pk, NoData, status)
    /\ vendors' = IF status = "204" THEN [vendors EXCEPT ![pk] = Vendor_absent] ELSE vendors
    /\ UNCHANGED <<users, products, sizes, images, categories, orders, orderItems,
                   inflight, ser>>

VendorViewSet_retrieve(c, pk) ==
    /\ IsCaller(c)
    /\ last' = Response("vendors", "retrieve", c, pk, NoData,
                        Retrieve_status(VendorQueryset,
                                        VendorViewSet_get_permissions("retrieve"),
                                        c, pk, VendorOwner(pk)))
    /\ UNCHANGED <<store, inflight, ser>>

VendorViewSet_list(c) ==
    /\ IsCaller(c)
    /\ last' = List_response("vendors", VendorViewSet_get_permissions("list"), c,
                              VendorQueryset)
    /\ UNCHANGED <<store, inflight, ser>>

\* --------------------------------------------------------------- products
\* The Product model (from the specification): quantity defaults to 1.
Product_defaults == [exists |-> TRUE, vendor |-> 0, quantity |-> 1, is_available |-> TRUE]
Product_absent == [exists |-> FALSE, vendor |-> 0, quantity |-> 0, is_available |-> FALSE]

ProductInputs ==
    {Merge(v, qa) :
        v \in {[vendor |-> x] : x \in VendorIds},
        qa \in {<<>>, [quantity |-> MaxQty, is_available |-> FALSE]}}
ProductPatchInputs ==
    ProductInputs \cup {[quantity |-> MaxQty], [is_available |-> FALSE]}

\* Product.objects.filter(is_available=True) and Product.objects.all()
ProductQueryset == {p \in ProductIds : products[p].exists /\ products[p].is_available}
Product_objects_all == {p \in ProductIds : products[p].exists}

\* ProductSerializer.Meta.exclude: fields the serializer neither reads nor writes.
ProductSerializer_exclude == {"description", "quantity", "customers"}
ProductSerializer_validated_data(d) == Without(d, ProductSerializer_exclude)

\* The vendor field is a primary-key relation: the row must exist.
ProductSerializer_is_valid(d, partial) ==
    IF "vendor" \in DOMAIN d THEN d.vendor \in VendorQueryset ELSE partial

ProductOwner(pk) ==
    IF pk \in ProductIds /\ products[pk].vendor \in VendorIds
    THEN vendors[products[pk].vendor].owner
    ELSE Anonymous

ProductViewSet_get_permissions(action) ==
    IF action = "create" THEN {"IsAVendor"}
    ELSE IF action \in {"list", "retrieve"} THEN {"AllowAny"}
    ELSE IF action = "destroy" THEN {"IsVendor", "IsAdminUser"}
    ELSE {"IsVendor"}

ProductViewSet_create(c, d) ==
    LET perms == ProductViewSet_get_permissions("create") IN
    /\ IsCaller(c)
    /\ IF ~check_permissions(perms, c)
       THEN /\ last' = Response("products", "create", c, 0, d, "denied")
            /\ UNCHANGED products
       ELSE IF ~ProductSerializer_is_valid(d, FALSE)
       THEN /\ last' = Response("products", "create", c, 0, d, "400")
            /\ UNCHANGED products
       ELSE /\ FreeIds(products) # {}
            /\ LET id == NewId(products) IN
               /\ products' = [products EXCEPT ![id] =
                                 Overlay(Product_defaults, ProductSerializer_validated_data(d))]
               /\ last' = Response("products", "create", c, id, d, "201")
    /\ UNCHANGED <<users, vendors, sizes, images, categories, orders, orderItems,
                   inflight, ser>>

ProductViewSet_write(action, c, pk, d) ==
    LET perms == ProductViewSet_get_permissions(action)
        got == get_object(ProductQueryset, perms, c, pk, ProductOwner(pk))
    IN
    /\ IsCaller(c)
    /\ IF ~check_permissions(perms, c)
       THEN /\ last' = Response("products", action, c, pk, d, "denied")
            /\ UNCHANGED products
       ELSE IF got # "ok"
       THEN /\ last' = Response("products", action, c, pk, d, got)
            /\ UNCHANGED products
       ELSE IF ~ProductSerializer_is_valid(d, action = "partial_update")
       THEN /\ last' = Response("products", action, c, pk, d, "400")
            /\ UNCHANGED products
       ELSE /\ products' = [products EXCEPT ![pk] =
                              Overlay(@, ProductSerializer_validated_data(d))]
            /\ last' = Response("products", action, c, pk, d, "200")
    /\ UNCHANGED <<users, vendors, sizes, images, categories, orders, orderItems,
                   inflight, ser>>

Size_absent == [exists |-> FALSE, variant |-> 0, quantity |-> 0]
Image_absent == [exists |-> FALSE, product |-> 0]
Item_absent == [exists |-> FALSE, user |-> 0, product |-> 0, quantity |-> 0]

\* Deleting a Product deletes the rows that reference it (from the specification:
\* a Size is a variant of a Product, an Image is associated with one).
Product_delete_sizes(pk) ==
    [s \in SizeIds |-> IF sizes[s].exists /\ sizes[s].variant = pk THEN Size_absent ELSE sizes[s]]
Product_delete_images(pk) ==
    [i \in ImageIds |-> IF images[i].exists /\ images[i].product = pk
                        THEN Image_absent ELSE images[i]]
Product_delete_items(pk) ==
    [i \in ItemIds |-> IF orderItems[i].exists /\ orderItems[i].product = pk
                       THEN Item_absent ELSE orderItems[i]]

ProductViewSet_destroy(c, pk) ==
    LET status == Destroy_status(ProductQueryset, ProductViewSet_get_permissions("destroy"),
                                 c, pk, ProductOwner(pk))
    IN
    /\ IsCaller(c)
    /\ last' = Response("products", "destroy", c, pk, NoData, status)
    /\ IF status = "204"
       THEN /\ products' = [products EXCEPT ![pk] = Product_absent]
            /\ sizes' = Product_delete_sizes(pk)
            /\ images' = Product_delete_images(pk)
            /\ orderItems' = Product_delete_items(pk)
       ELSE UNCHANGED <<products, sizes, images, orderItems>>
    /\ UNCHANGED <<users, vendors, categories, orders, inflight, ser>>

ProductViewSet_retrieve(c, pk) ==
    /\ IsCaller(c)
    /\ last' = Response("products", "retrieve", c, pk, NoData,
                        Retrieve_status(ProductQueryset,
                                        ProductViewSet_get_permissions("retrieve"),
                                        c, pk, ProductOwner(pk)))
    /\ UNCHANGED <<store, inflight, ser>>

ProductViewSet_list(c) ==
    /\ IsCaller(c)
    /\ last' = List_response("products", ProductViewSet_get_permissions("list"), c,
                              ProductQueryset)
    /\ UNCHANGED <<store, inflight, ser>>

\* ------------------------------------------------------------------ sizes
SizeLabels == {"M"}
SizeInputs ==
    {Merge(v, q) :
        v \in {<<>>} \cup {[variant |-> x] : x \in ProductIds},
        q \in {<<>>} \cup {[quantity |-> x] : x \in 0..MaxQty}}
      \cup {[size |-> l] : l \in SizeLabels}
      \cup {[size |-> l, variant |-> 1, quantity |-> x] : l \in SizeLabels, x \in 0..MaxQty}

\* The names api/serializers.py imports from .models; SizeChart is not among them.
serializers_imports ==
    {"Size", "OrderItem", "Image", "Review", "User", "Category", "Cart", "Product",
     "Order", "Vendor"}

\* The Size model's required fields (from the specification: a label, the Product
\* it is a variant of, a quantity).
Size_required == {"size", "variant", "quantity"}

SizeQueryset == {s \in SizeIds : sizes[s].exists}

\* variant.sizes.all()
variant_sizes(table, p) == {s \in SizeIds : table[s].exists /\ table[s].variant = p}

RECURSIVE SumQuantity(_, _)
SumQuantity(table, S) ==
    IF S = {} THEN 0
    ELSE LET s == CHOOSE x \in S : TRUE IN table[s].quantity + SumQuantity(table, S \ {s})

\* validate_size: names SizeChart, which the module never imports.
SizeSerializer_validate_size(value) ==
    IF "SizeChart" \notin serializers_imports THEN "NameError"
    ELSE IF value \notin SizeLabels THEN "ValidationError"
    ELSE "ok"

\* validate(attrs); instance is the pk of the row being updated, 0 on create.
SizeSerializer_validate(instance, attrs) ==
    LET quantity == IF "quantity" \in DOMAIN attrs THEN attrs.quantity ELSE 0 IN
    IF quantity # 0
    THEN LET variant == IF "variant" \in DOMAIN attrs THEN attrs.variant
                        ELSE sizes[instance].variant
             queryset == IF instance # 0 THEN variant_sizes(sizes, variant) \ {instance}
                         ELSE variant_sizes(sizes, variant)
         IN IF SumQuantity(sizes, queryset) + quantity > products[variant].quantity
            THEN "ValidationError"
            ELSE "ok"
    ELSE "ok"

\* serializer.is_valid(): the fields first (a field's validate_<name> runs when the
\* field is given; a required field missing from a full write and a variant that
\* names no Product are field errors), then validate().
SizeSerializer_is_valid(instance, d, partial) ==
    IF "size" \in DOMAIN d /\ SizeSerializer_validate_size(d.size) = "NameError"
    THEN "500:NameError"
    ELSE IF \/ ("size" \in DOMAIN d /\ SizeSerializer_validate_size(d.size) # "ok")
            \/ (~partial /\ ~(Size_required \subseteq DOMAIN d))
            \/ ("variant" \in DOMAIN d /\ d.variant \notin Product_objects_all)
    THEN "400"
    ELSE IF SizeSerializer_validate(instance, d) # "ok" THEN "400"
    ELSE "ok"

SizeOwner(pk) == IF pk \in SizeIds THEN ProductOwner(sizes[pk].variant) ELSE Anonymous

\* A get_permissions that lets every action through.
SizeViewSet_get_permissions_open(action) == {"AllowAny"}

SizeViewSet_get_permissions(action) ==
    IF action \in {"list", "retrieve"} THEN {"AllowAny"}
    ELSE {"IsVendor"}

\* The view up to and including is_valid(): "ok" or the error response's status.
SizeViewSet_checked(action, c, pk, d) ==
    LET perms == SizeViewSet_get_permissions(action) IN
    IF ~check_permissions(perms, c) THEN "denied"
    ELSE IF action # "create" /\ get_object(SizeQueryset, perms, c, pk, SizeOwner(pk)) # "ok"
    THEN get_object(SizeQueryset, perms, c, pk, SizeOwner(pk))
    ELSE SizeSerializer_is_valid(IF action = "create" THEN 0 ELSE pk, d,
                                 action = "partial_update")

\* serializer.save(): the row after the write.
SizeSerializer_save(table, pk, d) ==
    [table EXCEPT ![pk] = Overlay([@ EXCEPT !.exists = TRUE], d)]

SizeViewSet_create(c, d) ==
    LET status == SizeViewSet_checked("create", c, 0, d) IN
    /\ IsCaller(c)
    /\ IF status # "ok"
       THEN /\ last' = Response("sizes", "create", c, 0, d, status)
            /\ UNCHANGED sizes
       ELSE /\ FreeIds(sizes) # {}
            /\ LET id == NewId(sizes) IN
               /\ sizes' = SizeSerializer_save(sizes, id, d)
               /\ last' = Response("sizes", "create", c, id, d, "201")
    /\ UNCHANGED <<users, vendors, products, images, categories, orders, orderItems,
                   inflight, ser>>

SizeViewSet_write(action, c, pk, d) ==
    LET status == SizeViewSet_checked(action, c, pk, d) IN
    /\ IsCaller(c)
    /\ IF status # "ok"
       THEN /\ last' = Response("sizes", action, c, pk, d, status)
            /\ UNCHANGED sizes
       ELSE /\ sizes' = SizeSerializer_save(sizes, pk, d)
            /\ last' = Response("sizes", action, c, pk, d, "200")
    /\ UNCHANGED <<users, vendors, products, images, categories, orders, orderItems,
                   inflight, ser>>

SizeViewSet_destroy(c, pk) ==
    LET status == Destroy_status(SizeQueryset, SizeViewSet_get_permissions("destroy"),
                                 c, pk, SizeOwner(pk))
    IN
    /\ IsCaller(c)
    /\ last' = Response("sizes", "destroy", c, pk, NoData, status)
    /\ sizes' = IF status = "204" THEN [sizes EXCEPT ![pk] = Size_absent] ELSE sizes
    /\ UNCHANGED <<users, vendors, products, images, categories, orders, orderItems,
                   inflight, ser>>

SizeViewSet_retrieve(c, pk) ==
    /\ IsCaller(c)
    /\ last' = Response("sizes", "retrieve", c, pk, NoData,
                        Retrieve_status(SizeQueryset, SizeViewSet_get_permissions("retrieve"),
                                        c, pk, SizeOwner(pk)))
    /\ UNCHANGED <<store, inflight, ser>>

SizeViewSet_list(c) ==
    /\ IsCaller(c)
    /\ last' = List_response("sizes", SizeViewSet_get_permissions("list"), c, SizeQueryset)
    /\ UNCHANGED <<store, inflight, ser>>

\* Two requests in flight: a Size write is two steps of its worker, is_valid() and
\* then save(), each reading or writing the store as it stands at that step.
MaxWorkers == 2
Workers == 1..MaxWorkers
Idle == [phase |-> "idle"]

SizeViewSet_begin(w, action, c, pk, d) ==
    LET status == SizeViewSet_checked(action, c, pk, d) IN
    /\ IsCaller(c)
    /\ inflight[w].phase = "idle"
    /\ action = "create" => pk = 0
    /\ IF status # "ok"
       THEN /\ last' = Response("sizes", action, c, pk, d, status)
            /\ inflight' = [inflight EXCEPT ![w] = Idle]
       ELSE /\ inflight' = [inflight EXCEPT ![w] =
                              [phase |-> "validated", action |-> action, caller |-> c,
                               pk |-> pk, data |-> d]]
            /\ UNCHANGED last
    /\ UNCHANGED <<store, ser>>

SizeViewSet_save(w) ==
    LET r == inflight[w]
        id == IF r.action = "create" THEN NewId(sizes) ELSE r.pk
    IN
    /\ r.phase = "validated"
    /\ r.action = "create" => FreeIds(sizes) # {}
    /\ sizes' = SizeSerializer_save(sizes, id, r.data)
    /\ inflight' = [inflight EXCEPT ![w] = Idle]
    /\ last' = Response("sizes", r.action, r.caller, id, r.data,
                        IF r.action = "create" THEN "201" ELSE "200")
    /\ UNCHANGED <<users, vendors, products, images, categories, orders, orderItems, ser>>

\* ----------------------------------------------------------------- images
ImageInputs == {<<>>} \cup {[product |-> x] : x \in ProductIds}

ImageQueryset == {i \in ImageIds : images[i].exists}
ImageOwner(pk) == IF pk \in ImageIds THEN ProductOwner(images[pk].product) ELSE Anonymous

ImageSerializer_is_valid(d, partial) ==
    IF "product" \in DOMAIN d THEN d.product \in Product_objects_all ELSE partial

ImageViewSet_get_permissions(action) ==
    IF action \in {"list", "retrieve"} THEN {"AllowAny"}
    ELSE IF action = "destroy" THEN {"IsVendor", "IsAdminUser"}
    ELSE {"IsVendor"}

ImageViewSet_create(c, d) ==
    LET perms == ImageViewSet_get_permissions("create") IN
    /\ IsCaller(c)
    /\ IF ~check_permissions(perms, c)
       THEN /\ last' = Response("images", "create", c, 0, d, "denied")
            /\ UNCHANGED images
       ELSE IF ~ImageSerializer_is_valid(d, FALSE)
       THEN /\ last' = Response("images", "create", c, 0, d, "400")
            /\ UNCHANGED images
       ELSE /\ FreeIds(images) # {}
            /\ LET id == NewId(images) IN
               /\ images' = [images EXCEPT ![id] = [exists |-> TRUE, product |-> d.product]]
               /\ last' = Response("images", "create", c, id, d, "201")
    /\ UNCHANGED <<users, vendors, products, sizes, categories, orders, orderItems,
                   inflight, ser>>

ImageViewSet_write(action, c, pk, d) ==
    LET perms == ImageViewSet_get_permissions(action)
        got == get_object(ImageQueryset, perms, c, pk, ImageOwner(pk))
    IN
    /\ IsCaller(c)
    /\ IF ~check_permissions(perms, c)
       THEN /\ last' = Response("images", action, c, pk, d, "denied")
            /\ UNCHANGED images
       ELSE IF got # "ok"
       THEN /\ last' = Response("images", action, c, pk, d, got)
            /\ UNCHANGED images
       ELSE IF ~ImageSerializer_is_valid(d, action = "partial_update")
       THEN /\ last' = Response("images", action, c, pk, d, "400")
            /\ UNCHANGED images
       ELSE /\ images' = [images EXCEPT ![pk] = Overlay(@, d)]
            /\ last' = Response("images", action, c, pk, d, "200")
    /\ UNCHANGED <<users, vendors, products, sizes, categories, orders, orderItems,
                   inflight, ser>>

ImageViewSet_destroy(c, pk) ==
    LET status == Destroy_status(ImageQueryset, ImageViewSet_get_permissions("destroy"),
                                 c, pk, ImageOwner(pk))
    IN
    /\ IsCaller(c)
    /\ last' = Response("images", "destroy", c, pk, NoData, status)
    /\ images' = IF status = "204" THEN [images EXCEPT ![pk] = Image_absent] ELSE images
    /\ UNCHANGED <<users, vendors, products, sizes, categories, orders, orderItems,
                   inflight, ser>>

ImageViewSet_retrieve(c, pk) ==
    /\ IsCaller(c)
    /\ last' = Response("images", "retrieve", c, pk, NoData,
                        Retrieve_status(ImageQueryset, ImageViewSet_get_permissions("retrieve"),
                                        c, pk, ImageOwner(pk)))
    /\ UNCHANGED <<store, inflight, ser>>

ImageViewSet_list(c) ==
    /\ IsCaller(c)
    /\ last' = List_response("images", ImageViewSet_get_permissions("list"), c, ImageQueryset)
    /\ UNCHANGED <<store, inflight, ser>>

\* ------------------------------------------------------------- categories
CategoryInputs ==
    {Merge(n, sub) : n \in {<<>>} \cup {[name |-> x] : x \in {"a", "b"}},
                     sub \in {<<>>, [sub_categories |-> <<>>]}}
Category_absent == [exists |-> FALSE, name |-> ""]

CategoryQueryset == {k \in CatIds : categories[k].exists}

\* get_fields adds sub_categories = CategorySerializer(many=True, required=False): a
\* writable nested serializer, which ModelSerializer's create() and update() refuse.
CategorySerializer_save_status(d, done) ==
    IF "sub_categories" \in DOMAIN d THEN "500:AssertionError" ELSE done

CategorySerializer_is_valid(d, partial) == "name" \in DOMAIN d \/ partial

CategoryViewSet_get_permissions(action) ==
    IF action \in {"list", "retrieve"} THEN {"AllowAny"}
    ELSE {"IsAdminUser"}

CategoryViewSet_create(c, d) ==
    LET perms == CategoryViewSet_get_permissions("create") IN
    /\ IsCaller(c)
    /\ IF ~check_permissions(perms, c)
       THEN /\ last' = Response("categories", "create", c, 0, d, "denied")
            /\ UNCHANGED categories
       ELSE IF ~CategorySerializer_is_valid(d, FALSE)
       THEN /\ last' = Response("categories", "create", c, 0, d, "400")
            /\ UNCHANGED categories
       ELSE IF CategorySerializer_save_status(d, "201") # "201"
       THEN /\ last' = Response("categories", "create", c, 0, d,
                                CategorySerializer_save_status(d, "201"))
            /\ UNCHANGED categories
       ELSE /\ FreeIds(categories) # {}
            /\ LET id == NewId(categories) IN
               /\ categories' = [categories EXCEPT ![id] = [exists |-> TRUE, name |-> d.name]]
               /\ last' = Response("categories", "create", c, id, d, "201")
    /\ UNCHANGED <<users, vendors, products, sizes, images, orders, orderItems,
                   inflight, ser>>

CategoryViewSet_write(action, c, pk, d) ==
    LET perms == CategoryViewSet_get_permissions(action)
        got == get_object(CategoryQueryset, perms, c, pk, Anonymous)
    IN
    /\ IsCaller(c)
    /\ IF ~check_permissions(perms, c)
       THEN /\ last' = Response("categories", action, c, pk, d, "denied")
            /\ UNCHANGED categories
       ELSE IF got # "ok"
       THEN /\ last' = Response("categories", action, c, pk, d, got)
            /\ UNCHANGED categories
       ELSE IF ~CategorySerializer_is_valid(d, action = "partial_update")
       THEN /\ last' = Response("categories", action, c, pk, d, "400")
            /\ UNCHANGED categories
       ELSE IF CategorySerializer_save_status(d, "200") # "200"
       THEN /\ last' = Response("categories", action, c, pk, d,
                                CategorySerializer_save_status(d, "200"))
            /\ UNCHANGED categories
       ELSE /\ categories' = [categories EXCEPT ![pk] = Overlay(@, d)]
            /\ last' = Response("categories", action, c, pk, d, "200")
    /\ UNCHANGED <<users, vendors, products, sizes, images, orders, orderItems,
                   inflight, ser>>

CategoryViewSet_destroy(c, pk) ==
    LET status == Destroy_status(CategoryQueryset, CategoryViewSet_get_permissions("destroy"),
                                 c, pk, Anonymous)
    IN
    /\ IsCaller(c)
    /\ last' = Response("categories", "destroy", c, pk, NoData, status)
    /\ categories' = IF status = "204" THEN [categories EXCEPT ![pk] = Category_absent]
                     ELSE categories
    /\ UNCHANGED <<users, vendors, products, sizes, images, orders, orderItems,
                   inflight, ser>>

CategoryViewSet_retrieve(c, pk) ==
    /\ IsCaller(c)
    /\ last' = Response("categories", "retrieve", c, pk, NoData,
                        Retrieve_status(CategoryQueryset,
                                        CategoryViewSet_get_permissions("retrieve"),
                                        c, pk, Anonymous))
    /\ UNCHANGED <<store, inflight, ser>>

CategoryViewSet_list(c) ==
    /\ IsCaller(c)
    /\ last' = List_response("categories", CategoryViewSet_get_permissions("list"), c,
                              CategoryQueryset)
    /\ UNCHANGED <<store, inflight, ser>>

\* --------------------------------------------------- CustomRelatedField
\* A lookup that yields None for a missing row: queryset.filter(pk=data).first().
CustomRelatedField_to_internal_value_first(queryset, data) ==
    IF \E obj \in queryset : obj = data
    THEN [raised |-> "", value |-> CHOOSE obj \in queryset : obj = data]
    ELSE [raised |-> "", value |-> 0]

\* to_internal_value: self.queryset.get(pk=data); Model.DoesNotExist is not caught.
CustomRelatedField_to_internal_value(queryset, data) ==
    IF \E obj \in queryset : obj = data
    THEN [raised |-> "", value |-> CHOOSE obj \in queryset : obj = data]
    ELSE [raised |-> "DoesNotExist", value |-> 0]

\* The serializer classes that define get_custom_fields as a static method.
has_get_custom_fields ==
    {"ImageSerializer", "ProductSerializer", "SizeSerializer", "OrderItemSerializer"}

\* to_representation: self.serializer(instance=value,
\* fields=self.serializer.get_custom_fields()).data; "200"-class status `done` stands
\* when the serializer class has the method.
CustomRelatedField_to_representation(serializer, done) ==
    IF serializer \in has_get_custom_fields THEN done ELSE "500:AttributeError"

\* ------------------------------------------------------------ order items
OrderItemInputs ==
    {Merge(pr, q) :
        pr \in {<<>>} \cup {[product |-> x] : x \in ProductIds},
        q \in {<<>>, [quantity |-> 2]}}

\* OrderItemSerializer.Meta.extra_kwargs: quantity defaults to 1.
OrderItem_defaults == [exists |-> TRUE, user |-> 0, product |-> 0, quantity |-> 1]

OrderItemQueryset == {i \in ItemIds : orderItems[i].exists}
OrderItemOwner(pk) == IF pk \in ItemIds THEN orderItems[pk].user ELSE Anonymous

\* product = CustomRelatedField(queryset=Product.objects.all(), ...)
OrderItemSerializer_product(d) ==
    CustomRelatedField_to_internal_value(Product_objects_all, d.product)

OrderItemSerializer_is_valid(d, partial) ==
    IF "product" \in DOMAIN d /\ OrderItemSerializer_product(d).raised # ""
    THEN "500:" \o OrderItemSerializer_product(d).raised
    ELSE IF "product" \notin DOMAIN d /\ ~partial THEN "400"
    ELSE "ok"

OrderItemSerializer_validated_data(d) ==
    IF "product" \in DOMAIN d
    THEN Merge([product |-> OrderItemSerializer_product(d).value], d)
    ELSE d

OrderItemViewSet_get_permissions(action) == {"IsAdminUser", "IsUser"}

OrderItemViewSet_create(c, d) ==
    LET perms == OrderItemViewSet_get_permissions("create")
        valid == OrderItemSerializer_is_valid(d, FALSE)
    IN
    /\ IsCaller(c)
    /\ IF ~check_permissions(perms, c)
       THEN /\ last' = Response("order-items", "create", c, 0, d, "denied")
            /\ UNCHANGED orderItems
       ELSE IF valid # "ok"
       THEN /\ last' = Response("order-items", "create", c, 0, d, valid)
            /\ UNCHANGED orderItems
       ELSE /\ FreeIds(orderItems) # {}
            /\ LET id == NewId(orderItems)
                   attrs == Merge([user |-> c], OrderItemSerializer_validated_data(d))
               IN /\ orderItems' = [orderItems EXCEPT ![id] = Overlay(OrderItem_defaults, attrs)]
                  /\ last' = Response("order-items", "create", c, id, d,
                               CustomRelatedField_to_representation("ProductSerializer", "201"))
    /\ UNCHANGED <<users, vendors, products, sizes, images, categories, orders,
                   inflight, ser>>

OrderItemViewSet_write(action, c, pk, d) ==
    LET perms == OrderItemViewSet_get_permissions(action)
        got == get_object(OrderItemQueryset, perms, c, pk, OrderItemOwner(pk))
        valid == OrderItemSerializer_is_valid(d, action = "partial_update")
    IN
    /\ IsCaller(c)
    /\ IF ~check_permissions(perms, c)
       THEN /\ last' = Response("order-items", action, c, pk, d, "denied")
            /\ UNCHANGED orderItems
       ELSE IF got # "ok"
       THEN /\ last' = Response("order-items", action, c, pk, d, got)
            /\ UNCHANGED orderItems
       ELSE IF valid # "ok"
       THEN /\ last' = Response("order-items", action, c, pk, d, valid)
            /\ UNCHANGED orderItems
       ELSE /\ orderItems' = [orderItems EXCEPT ![pk] =
                                Overlay(@, OrderItemSerializer_validated_data(d))]
            /\ last' = Response("order-items", action, c, pk, d,
                          CustomRelatedField_to_representation("ProductSerializer", "200"))
    /\ UNCHANGED <<users, vendors, products, sizes, images, categories, orders,
                   inflight, ser>>

OrderItemViewSet_destroy(c, pk) ==
    LET status == Destroy_status(OrderItemQueryset, OrderItemViewSet_get_permissions("destroy"),
                                 c, pk, OrderItemOwner(pk))
    IN
    /\ IsCaller(c)
    /\ last' = Response("order-items", "destroy", c, pk, NoData, status)
    /\ orderItems' = IF status = "204" THEN [orderItems EXCEPT ![pk] = Item_absent]
                     ELSE orderItems
    /\ UNCHANGED <<users, vendors, products, sizes, images, categories, orders,
                   inflight, ser>>

OrderItemViewSet_retrieve(c, pk) ==
    LET status == Retrieve_status(OrderItemQueryset,
                                  OrderItemViewSet_get_permissions("retrieve"),
                                  c, pk, OrderItemOwner(pk))
    IN
    /\ IsCaller(c)
    /\ last' = Response("order-items", "retrieve", c, pk, NoData,
                        IF status = "200"
                        THEN CustomRelatedField_to_representation("ProductSerializer", "200")
                        ELSE status)
    /\ UNCHANGED <<store, inflight, ser>>

OrderItemViewSet_list(c) ==
    /\ IsCaller(c)
    /\ last' = List_response("order-items", OrderItemViewSet_get_permissions("list"), c,
                              OrderItemQueryset)
    /\ UNCHANGED <<store, inflight, ser>>

\* ----------------------------------------------------------------- orders
OrderInputs ==
    {<<>>} \cup {[cart |-> x] : x \in {0} \cup CartIds} \cup {[cart |-> 1, user |-> 1]}
Order_absent == [exists |-> FALSE, user |-> 0, cart |-> 0]

\* Cart.objects.all(): no viewset writes carts.
Cart_objects_all == CartIds

OrderQueryset == {o \in OrderIds : orders[o].exists}
OrderOwner(pk) == IF pk \in OrderIds THEN orders[pk].user ELSE Anonymous

\* cart = CustomRelatedField(queryset=Cart.objects.all(), serializer=CartSerializer)
OrderSerializer_cart(d) == CustomRelatedField_to_internal_value(Cart_objects_all, d.cart)

OrderSerializer_is_valid(d) ==
    IF "cart" \in DOMAIN d /\ OrderSerializer_cart(d).raised # ""
    THEN "500:" \o OrderSerializer_cart(d).raised
    ELSE IF "cart" \notin DOMAIN d THEN "400"
    ELSE "ok"

\* Rendering an Order renders its cart through CartSerializer.
OrderSerializer_data(done) == CustomRelatedField_to_representation("CartSerializer", done)

OrderViewSet_get_permissions(action) ==
    IF action = "create" THEN {"IsAuthenticated"}
    ELSE {"IsUser", "IsAdminUser"}

\* create: is_valid(), perform_create (the row is saved), then the response's data.
OrderViewSet_create(c, d) ==
    LET perms == OrderViewSet_get_permissions("create")
        valid == OrderSerializer_is_valid(d)
    IN
    /\ IsCaller(c)
    /\ IF ~check_permissions(perms, c)
       THEN /\ last' = Response("orders", "create", c, 0, d, "denied")
            /\ UNCHANGED orders
       ELSE IF valid # "ok"
       THEN /\ last' = Response("orders", "create", c, 0, d, valid)
            /\ UNCHANGED orders
       ELSE /\ FreeIds(orders) # {}
            /\ LET id == NewId(orders) IN
               /\ orders' = [orders EXCEPT ![id] =
                               [exists |-> TRUE, user |-> c,
                                cart |-> OrderSerializer_cart(d).value]]
               /\ last' = Response("orders", "create", c, id, d, OrderSerializer_data("201"))
    /\ UNCHANGED <<users, vendors, products, sizes, images, categories, orderItems,
                   inflight, ser>>

\* The update a ModelViewSet inherits when the override is missing.
OrderViewSet_update_inherited(c, pk, d) ==
    LET perms == OrderViewSet_get_permissions("update")
        found == get_object(OrderQueryset, perms, c, pk, OrderOwner(pk))
        status == IF ~check_permissions(perms, c) THEN "denied"
                  ELSE IF found # "ok" THEN found
                  ELSE IF OrderSerializer_is_valid(d) # "ok" THEN OrderSerializer_is_valid(d)
                  ELSE "200"
    IN
    /\ IsCaller(c)
    /\ last' = Response("orders", "update", c, pk, d, status)
    /\ orders' = IF status = "200" THEN [orders EXCEPT ![pk].cart = d.cart] ELSE orders
    /\ UNCHANGED <<users, vendors, products, sizes, images, categories, orderItems,
                   inflight, ser>>

\* update and partial_update answer 405; the dispatcher checks the permissions of
\* get_permissions before it calls them, and they never call get_object.
OrderViewSet_update(c, pk, d) ==
    LET perms == OrderViewSet_get_permissions("update") IN
    /\ IsCaller(c)
    /\ last' = Response("orders", "update", c, pk, d,
                        IF ~check_permissions(perms, c) THEN "denied" ELSE "405")
    /\ UNCHANGED <<store, inflight, ser>>

OrderViewSet_partial_update(c, pk, d) ==
    LET perms == OrderViewSet_get_permissions("partial_update") IN
    /\ IsCaller(c)
    /\ last' = Response("orders", "partial_update", c, pk, d,
                        IF ~check_permissions(perms, c) THEN "denied" ELSE "405")
    /\ UNCHANGED <<store, inflight, ser>>

OrderViewSet_destroy(c, pk) ==
    LET status == Destroy_status(OrderQueryset, OrderViewSet_get_permissions("destroy"),
                                 c, pk, OrderOwner(pk))
    IN
    /\ IsCaller(c)
    /\ last' = Response("orders", "destroy", c, pk, NoData, status)
    /\ orders' = IF status = "204" THEN [orders EXCEPT ![pk] = Order_absent] ELSE orders
    /\ UNCHANGED <<users, vendors, products, sizes, images, categories, orderItems,
                   inflight, ser>>

OrderViewSet_retrieve(c, pk) ==
    LET status == Retrieve_status(OrderQueryset, OrderViewSet_get_permissions("retrieve"),
                                  c, pk, OrderOwner(pk))
    IN
    /\ IsCaller(c)
    /\ last' = Response("orders", "retrieve", c, pk, NoData,
                        IF status = "200" THEN OrderSerializer_data("200") ELSE status)
    /\ UNCHANGED <<store, inflight, ser>>

OrderViewSet_list(c) ==
    LET perms == OrderViewSet_get_permissions("list") IN
    /\ IsCaller(c)
    /\ last' = IF check_permissions(perms, c) /\ OrderQueryset # {}
               THEN Response("orders", "list", c, 0, NoData, OrderSerializer_data("200"))
               ELSE List_response("orders", perms, c, OrderQueryset)
    /\ UNCHANGED <<store, inflight, ser>>

\* ------------------------------------------------ DynamicModelSerializer
Range(seq) == {seq[i] : i \in DOMAIN seq}

DynamicSerializers ==
    {"ImageSerializer", "ProductSerializer", "SizeSerializer", "ReviewSerializer",
     "OrderItemSerializer", "CartSerializer", "OrderSerializer"}

\* The fields of each serializer's model, in declaration order (from the
\* specification's data model).
Model_fields(cls) ==
    CASE cls = "ProductSerializer" ->
           <<"id", "name", "brand", "price", "is_available", "quantity", "description",
             "vendor", "customers">>
      [] cls = "SizeSerializer" -> <<"id", "size", "quantity", "is_available", "variant">>
      [] cls = "ImageSerializer" -> <<"id", "url", "product">>
      [] cls = "ReviewSerializer" -> <<"id", "product", "user", "stars">>
      [] cls = "OrderItemSerializer" -> <<"id", "product", "quantity", "user">>
      [] cls = "CartSerializer" -> <<"id", "user", "items">>
      [] cls = "OrderSerializer" -> <<"id", "cart", "user">>

\* Meta.exclude; every other dynamic serializer has Meta.fields = "__all__".
Meta_exclude(cls) == IF cls = "ProductSerializer" THEN ProductSerializer_exclude ELSE {}

\* ModelSerializer.get_field_names: the model's fields less Meta.exclude.
ModelSerializer_get_field_names(cls) ==
    SelectSeq(Model_fields(cls), LAMBDA x : x \notin Meta_exclude(cls))

\* __init__: self.dynamic_fields = kwargs.pop("fields", None)
DynamicModelSerializer_init(kwargs) ==
    IF "fields" \in DOMAIN kwargs
    THEN [is_none |-> FALSE, value |-> kwargs.fields]
    ELSE [is_none |-> TRUE, value |-> {}]

\* A get_field_names that never narrows.
DynamicModelSerializer_get_field_names_unfiltered(field_names, dynamic_fields) == field_names

\* get_field_names
DynamicModelSerializer_get_field_names(field_names, dynamic_fields) ==
    IF ~dynamic_fields.is_none
    THEN LET allowed == dynamic_fields.value
             excluded_field_names == Range(field_names) \ allowed
         IN SelectSeq(field_names, LAMBDA x : x \notin excluded_field_names)
    ELSE field_names

\* The keyword arguments a serializer may be built with: none, or fields= some
\* names of the model and a name that is no field.
SerializerKwargs(cls) ==
    {<<>>} \cup {[fields |-> A] : A \in SUBSET (Range(Model_fields(cls)) \cup {"nofield"})}

\* Building a serializer and reading its fields.
Serializer_construct(cls, kwargs) ==
    /\ ser' = [cls |-> cls,
               dynamic_fields |-> DynamicModelSerializer_init(kwargs),
               field_names |-> DynamicModelSerializer_get_field_names(
                                   ModelSerializer_get_field_names(cls),
                                   DynamicModelSerializer_init(kwargs))]
    /\ UNCHANGED <<store, inflight, last>>

\* ------------------------------------------------------------------- Init
User_absent ==
    [exists |-> FALSE, is_active |-> FALSE, is_staff |-> FALSE, is_vendor |-> FALSE]

\* A seeded store: an admin (1), a vendor's owner (2) and a customer (3); the
\* owner's Vendor with one Product of quantity MaxQty and its Sizes, within that
\* quantity; an Image, a Category, and the customer's Order and OrderItem.
Init ==
    /\ users = [u \in UserIds |->
                  IF u = 1 THEN [User_defaults EXCEPT !.is_staff = TRUE]
                  ELSE IF u = 2 THEN [User_defaults EXCEPT !.is_vendor = TRUE]
                  ELSE IF u = 3 THEN User_defaults
                  ELSE User_absent]
    /\ vendors = [v \in VendorIds |->
                    IF v = 1 THEN [exists |-> TRUE, name |-> "a", owner |-> 2]
                    ELSE Vendor_absent]
    /\ products = [p \in ProductIds |->
                     IF p = 1 THEN [Product_defaults EXCEPT !.vendor = 1, !.quantity = MaxQty]
                     ELSE Product_absent]
    /\ sizes = [s \in SizeIds |->
                  IF s = 1 THEN [exists |-> TRUE, variant |-> 1, quantity |-> 1]
                  ELSE IF s = 2 THEN [exists |-> TRUE, variant |-> 1, quantity |-> 0]
                  ELSE Size_absent]
    /\ images = [i \in ImageIds |->
                   IF i = 1 THEN [exists |-> TRUE, product |-> 1] ELSE Image_absent]
    /\ categories = [k \in CatIds |->
                       IF k = 1 THEN [exists |-> TRUE, name |-> "a"] ELSE Category_absent]
    /\ orders = [o \in OrderIds |->
                   IF o = 1 THEN [exists |-> TRUE, user |-> 3, cart |-> 1] ELSE Order_absent]
    /\ orderItems = [i \in ItemIds |->
                       IF i = 1 THEN [OrderItem_defaults EXCEPT !.user = 3, !.product = 1]
                       ELSE Item_absent]
    /\ inflight = [w \in Workers |-> Idle]
    /\ ser = [cls |-> "", dynamic_fields |-> [is_none |-> TRUE, value |-> {}],
              field_names |-> <<>>]
    /\ last = Response("", "", Anonymous, 0, <<>>, "")

\* --------------------------------------------------------------- requests
UserRequests(C) ==
    \E c \in C :
      \/ \E d \in Bodies(check_permissions(UserViewSet_get_permissions("create"), c), FlagInputs) :
            UserViewSet_create(c, d)
      \/ \E pk \in UserIds :
            \E d \in Bodies(Reads_body(UserQueryset, UserViewSet_get_permissions("update"), c, pk,
                                       pk), FlagInputs) :
              UserViewSet_write("update", c, pk, d)
      \/ \E pk \in UserIds :
            \E d \in Bodies(Reads_body(UserQueryset, UserViewSet_get_permissions("partial_update"), c,
                                       pk, pk), FlagInputs) :
              UserViewSet_write("partial_update", c, pk, d)
      \/ \E pk \in UserIds : UserViewSet_destroy(c, pk)
      \/ \E pk \in UserIds : UserViewSet_retrieve(c, pk)
      \/ UserViewSet_list(c)

VendorRequests(C) ==
    \E c \in C :
      \/ \E d \in Bodies(check_permissions(VendorViewSet_get_permissions("create"), c), VendorInputs) :
            VendorViewSet_create(c, d)
      \/ \E pk \in VendorIds :
            \E d \in Bodies(Reads_body(VendorQueryset, VendorViewSet_get_permissions("update"), c, pk,
                                       VendorOwner(pk)), VendorInputs) :
              VendorViewSet_write("update", c, pk, d)
      \/ \E pk \in VendorIds :
            \E d \in Bodies(Reads_body(VendorQueryset, VendorViewSet_get_permissions("partial_update"), c,
                                       pk, VendorOwner(pk)), VendorPatchInputs) :
              VendorViewSet_write("partial_update", c, pk, d)
      \/ \E pk \in VendorIds : VendorViewSet_destroy(c, pk)
      \/ \E pk \in VendorIds : VendorViewSet_retrieve(c, pk)
      \/ VendorViewSet_list(c)

ProductRequests(C) ==
    \E c \in C :
      \/ \E d \in Bodies(check_permissions(ProductViewSet_get_permissions("create"), c), ProductInputs) :
            ProductViewSet_create(c, d)
      \/ \E pk \in ProductIds :
            \E d \in Bodies(Reads_body(ProductQueryset, ProductViewSet_get_permissions("update"), c, pk,
                                       ProductOwner(pk)), ProductInputs) :
              ProductViewSet_write("update", c, pk, d)
      \/ \E pk \in ProductIds :
            \E d \in Bodies(Reads_body(ProductQueryset, ProductViewSet_get_permissions("partial_update"), c,
                                       pk, ProductOwner(pk)), ProductPatchInputs) :
              ProductViewSet_write("partial_update", c, pk, d)
      \/ \E pk \in ProductIds : ProductViewSet_destroy(c, pk)
      \/ \E pk \in ProductIds : ProductViewSet_retrieve(c, pk)
      \/ ProductViewSet_list(c)

SizeRequests(C) ==
    \E c \in C :
      \/ \E d \in Bodies(check_permissions(SizeViewSet_get_permissions("create"), c), SizeInputs) :
            SizeViewSet_create(c, d)
      \/ \E pk \in SizeIds :
            \E d \in Bodies(Reads_body(SizeQueryset, SizeViewSet_get_permissions("update"), c, pk,
                                       SizeOwner(pk)), SizeInputs) :
              SizeViewSet_write("update", c, pk, d)
      \/ \E pk \in SizeIds :
            \E d \in Bodies(Reads_body(SizeQueryset, SizeViewSet_get_permissions("partial_update"), c,
                                       pk, SizeOwner(pk)), SizeInputs) :
              SizeViewSet_write("partial_update", c, pk, d)
      \/ \E pk \in SizeIds : SizeViewSet_destroy(c, pk)
      \/ \E pk \in SizeIds : SizeViewSet_retrieve(c, pk)
      \/ SizeViewSet_list(c)

ImageRequests(C) ==
    \E c \in C :
      \/ \E d \in Bodies(check_permissions(ImageViewSet_get_permissions("create"), c), ImageInputs) :
            ImageViewSet_create(c, d)
      \/ \E pk \in ImageIds :
            \E d \in Bodies(Reads_body(ImageQueryset, ImageViewSet_get_permissions("update"), c, pk,
                                       ImageOwner(pk)), ImageInputs) :
              ImageViewSet_write("update", c, pk, d)
      \/ \E pk \in ImageIds :
            \E d \in Bodies(Reads_body(ImageQueryset, ImageViewSet_get_permissions("partial_update"), c,
                                       pk, ImageOwner(pk)), ImageInputs) :
              ImageViewSet_write("partial_update", c, pk, d)
      \/ \E pk \in ImageIds : ImageViewSet_destroy(c, pk)
      \/ \E pk \in ImageIds : ImageViewSet_retrieve(c, pk)
      \/ ImageViewSet_list(c)

CategoryRequests(C) ==
    \E c \in C :
      \/ \E d \in Bodies(check_permissions(CategoryViewSet_get_permissions("create"), c), CategoryInputs) :
            CategoryViewSet_create(c, d)
      \/ \E pk \in CatIds :
            \E d \in Bodies(Reads_body(CategoryQueryset, CategoryViewSet_get_permissions("update"), c, pk,
                                       Anonymous), CategoryInputs) :
              CategoryViewSet_write("update", c, pk, d)
      \/ \E pk \in CatIds :
            \E d \in Bodies(Reads_body(CategoryQueryset, CategoryViewSet_get_permissions("partial_update"), c,
                                       pk, Anonymous), CategoryInputs) :
              CategoryViewSet_write("partial_update", c, pk, d)
      \/ \E pk \in CatIds : CategoryViewSet_destroy(c, pk)
      \/ \E pk \in CatIds : CategoryViewSet_retrieve(c, pk)
      \/ CategoryViewSet_list(c)

OrderItemRequests(C) ==
    \E c \in C :
      \/ \E d \in Bodies(check_permissions(OrderItemViewSet_get_permissions("create"), c), OrderItemInputs) :
            OrderItemViewSet_create(c, d)
      \/ \E pk \in ItemIds :
            \E d \in Bodies(Reads_body(OrderItemQueryset, OrderItemViewSet_get_permissions("update"), c, pk,
                                       OrderItemOwner(pk)), OrderItemInputs) :
              OrderItemViewSet_write("update", c, pk, d)
      \/ \E pk \in ItemIds :
            \E d \in Bodies(Reads_body(OrderItemQueryset, OrderItemViewSet_get_permissions("partial_update"), c,
                                       pk, OrderItemOwner(pk)), OrderItemInputs) :
              OrderItemViewSet_write("partial_update", c, pk, d)
      \/ \E pk \in ItemIds : OrderItemViewSet_destroy(c, pk)
      \/ \E pk \in ItemIds : OrderItemViewSet_retrieve(c, pk)
      \/ OrderItemViewSet_list(c)

OrderRequests(C) ==
    \E c \in C :
      \/ \E d \in Bodies(check_permissions(OrderViewSet_get_permissions("create"), c), OrderInputs) :
            OrderViewSet_create(c, d)
      \/ \E pk \in OrderIds : OrderViewSet_update(c, pk, <<>>)
      \/ \E pk \in OrderIds : OrderViewSet_partial_update(c, pk, <<>>)
      \/ \E pk \in OrderIds : OrderViewSet_destroy(c, pk)
      \/ \E pk \in OrderIds : OrderViewSet_retrieve(c, pk)
      \/ OrderViewSet_list(c)

\* --------------------------------------------------------- specifications
\* The accounts: users and vendors, every caller.
NextUsers == UserRequests(AllCallers) \/ VendorRequests(AllCallers)
SpecUsers == Init /\ [][NextUsers]_vars

\* The inventory: products and their sizes, every caller, one request at a time.
NextInventory == ProductRequests(AllCallers) \/ SizeRequests(AllCallers)
SpecInventory == Init /\ [][NextInventory]_vars

\* Size-quantity writes of two workers, interleaved between is_valid() and save().
SizeQuantityInputs == {[quantity |-> x] : x \in 0..MaxQty}
NextConcurrent ==
    \/ \E w \in Workers, action \in {"create", "update", "partial_update"}, c \in AllCallers,
          pk \in {0} \cup SizeIds :
            \E d \in Bodies(check_permissions(SizeViewSet_get_permissions(action), c)
                               /\ (action # "create" =>
                                      get_object(SizeQueryset,
                                                 SizeViewSet_get_permissions(action), c, pk,
                                                 SizeOwner(pk)) = "ok"),
                            SizeQuantityInputs) :
              SizeViewSet_begin(w, action, c, pk, d)
    \/ \E w \in Workers : SizeViewSet_save(w)
SpecConcurrent == Init /\ [][NextConcurrent]_vars

\* The orders, every caller.
NextOrders == OrderRequests(AllCallers)
SpecOrders == Init /\ [][NextOrders]_vars

\* The order items, every caller.
NextItems == OrderItemRequests(AllCallers)
SpecItems == Init /\ [][NextItems]_vars

\* Every request of every viewset, sent without credentials.
NextAnonymous ==
    \/ UserRequests({Anonymous})
    \/ VendorRequests({Anonymous})
    \/ ProductRequests({Anonymous})
    \/ SizeRequests({Anonymous})
    \/ ImageRequests({Anonymous})
    \/ CategoryRequests({Anonymous})
    \/ OrderItemRequests({Anonymous})
    \/ OrderRequests({Anonymous})
SpecAnonymous == Init /\ [][NextAnonymous]_vars

\* The serializers built with and without a fields= allow-list.
NextFields == \E cls \in DynamicSerializers :
                  \E kwargs \in SerializerKwargs(cls) : Serializer_construct(cls, kwargs)
SpecFields == Init /\ [][NextFields]_vars

\* The whole API, one request at a time.
Next ==
    \/ UserRequests(AllCallers)
    \/ VendorRequests(AllCallers)
    \/ ProductRequests(AllCallers)
    \/ SizeRequests(AllCallers)
    \/ ImageRequests(AllCallers)
    \/ CategoryRequests(AllCallers)
    \/ OrderItemRequests(AllCallers)
    \/ OrderRequests(AllCallers)
Spec == Init /\ [][Next]_vars

\* ----------------------------------------------------------------- claims
WriteActions == {"create", "update", "partial_update"}
Created(status) == status \in {"200", "201"}

\* C1: in every state reached by API writes, the quantities of a Product's Sizes
\* sum to at most the Product's quantity.
C1_InventoryInvariant ==
    \A p \in ProductIds :
        products[p].exists =>
            SumQuantity(sizes, variant_sizes(sizes, p)) <= products[p].quantity

C3_OrderUpdateAlways405 ==
    [][(last'.view = "orders" /\ last'.action \in {"update", "partial_update"}) =>
          (last'.status = "405" /\ orders' = orders)]_vars

\* C3 for the callers that pass the permission check: an update or partial
\* update of an Order by an authenticated caller (owner, admin or another user) is
\* answered 405; an anonymous caller is denied before the handler runs; in every
\* case no Order changes.
C3_OrderUpdateRejected ==
    [][(last'.view = "orders" /\ last'.action \in {"update", "partial_update"}) =>
          /\ last'.caller # Anonymous => last'.status = "405"
          /\ last'.caller = Anonymous => last'.status = "denied"
          /\ orders' = orders]_vars

C3_Witness ==
    /\ last.view = "orders" /\ last.action = "update" /\ last.status = "405"
    /\ orders[last.pk].exists /\ orders[last.pk].user = last.caller

\* A User row kept by a soft delete.
SoftDeleted(u) == users[u].exists /\ ~users[u].is_active

C4_DestroyKeepsRow ==
    (last.view = "users" /\ last.action = "destroy" /\ last.status = "204") =>
        (SoftDeleted(last.pk) /\ last.pk \notin UserQueryset)

C4_AdminRetrieves(status) ==
    (/\ last.view = "users" /\ last.action = "retrieve"
     /\ last.caller # Anonymous /\ users[last.caller].is_staff
     /\ SoftDeleted(last.pk)) => last.status = status

\* C4 as first stated: a User destroyed through the API still exists, inactive
\* and outside the active-user queryset, and an admin's retrieve of it succeeds.
C4_SoftDeleteAdminRetrievable ==
    [][/\ C4_DestroyKeepsRow'
       /\ C4_AdminRetrieves("200")'
       /\ \A u \in UserIds : SoftDeleted(u) => SoftDeleted(u)']_vars

\* C4: a User destroyed through the API still exists with is_active false, stays
\* so, and is outside the active-user queryset; the retrieve operation reads that
\* queryset, so an admin's retrieve of the User is answered not-found.
C4_SoftDeleteHidesUser ==
    [][/\ C4_DestroyKeepsRow'
       /\ C4_AdminRetrieves("404")'
       /\ \A u \in UserIds : SoftDeleted(u) => SoftDeleted(u)']_vars

C4_Witness ==
    /\ last.view = "users" /\ last.action = "retrieve" /\ last.status = "404"
    /\ last.caller # Anonymous /\ users[last.caller].is_staff
    /\ SoftDeleted(last.pk)

PublicViews == {"products", "categories", "sizes", "images", "vendors"}

\* C5: an anonymous caller may list and retrieve products, categories, sizes,
\* images and vendors and may create a User; an anonymous create, update or
\* destroy on those five resources, any anonymous operation on orders and order
\* items, and any anonymous operation on users other than create is denied, and a
\* denied request changes nothing.
C5_AnonymousAccess ==
    [][LET r == last' IN
       r.caller = Anonymous =>
         /\ (r.view \in PublicViews /\ r.action \in {"list", "retrieve"}) =>
                r.status \in {"200", "404"}
         /\ (r.view \in PublicViews /\ r.action \notin {"list", "retrieve"}) =>
                r.status = "denied"
         /\ r.view \in {"orders", "order-items"} => r.status = "denied"
         /\ (r.view = "users" /\ r.action # "create") => r.status = "denied"
         /\ (r.view = "users" /\ r.action = "create") => r.status # "denied"
         /\ r.status = "denied" => store' = store]_vars

C5_Witness ==
    /\ last.caller = Anonymous /\ last.view = "sizes" /\ last.action = "destroy"
    /\ last.status = "denied" /\ sizes[last.pk].exists

\* C6: a Vendor create by an authenticated caller succeeds, the new Vendor's
\* owner is the caller, and the caller's is_vendor flag is set.
C6_VendorCreateBindsOwner ==
    (last.view = "vendors" /\ last.action = "create" /\ last.caller # Anonymous) =>
        /\ last.status = "201"
        /\ vendors[last.pk].exists
        /\ vendors[last.pk].owner = last.caller
        /\ users[last.caller].is_vendor

\* The Product a Size write is for and the other Sizes it is summed with,
\* read in the state before the write.
C7_Variant(r) ==
    IF "variant" \in DOMAIN r.data THEN r.data.variant
    ELSE IF r.action = "create" THEN 0 ELSE sizes[r.pk].variant

C7_Others(r) ==
    IF r.action = "create" THEN variant_sizes(sizes, C7_Variant(r))
    ELSE variant_sizes(sizes, C7_Variant(r)) \ {r.pk}

C7_Exceeds(r) ==
    /\ r.view = "sizes" /\ r.action \in WriteActions
    /\ "quantity" \in DOMAIN r.data
    /\ C7_Variant(r) \in ProductIds
    /\ products[C7_Variant(r)].exists
    /\ SumQuantity(sizes, C7_Others(r)) + r.data.quantity
           > products[C7_Variant(r)].quantity

\* C7: a Size create or update whose quantity, added to the quantities of the
\* other Sizes of the same Product, exceeds the Product's quantity is answered
\* with a validation error and leaves sizes and products unchanged.
C7_OverQuantityRejected ==
    [][LET r == last' IN
       C7_Exceeds(r) => (r.status = "400" /\ sizes' = sizes /\ products' = products)]_vars

C8_Flags(row) == [f \in FlagNames |-> row[f]]

\* C8: a User create stores is_active true, is_staff false and is_vendor false
\* whatever flags the request supplies, and a User update or partial update
\* leaves the three flags of every User as they were.
C8_FlagsReadOnly ==
    [][LET r == last' IN
       r.view = "users" =>
         /\ (r.action = "create" /\ r.status = "201") =>
              /\ users'[r.pk].exists
              /\ C8_Flags(users'[r.pk]) = C8_Flags(User_defaults)
         /\ r.action \in {"update", "partial_update"} =>
              \A u \in UserIds : C8_Flags(users'[u]) = C8_Flags(users[u])]_vars

C8_Witness ==
    /\ last.view = "users" /\ last.action = "create" /\ last.status = "201"
    /\ "is_staff" \in DOMAIN last.data /\ last.data.is_staff
    /\ ~users[last.pk].is_staff

\* C9: an OrderItem create or update that supplies a product id resolves it
\* against all Products: an existing id is stored as the item's product, a
\* missing id ends the request with the lookup's DoesNotExist error and changes
\* no OrderItem.
C9_ProductResolution ==
    [][LET r == last' IN
       (r.view = "order-items" /\ r.action \in WriteActions
            /\ "product" \in DOMAIN r.data) =>
         IF r.data.product \in ProductIds /\ products[r.data.product].exists
         THEN /\ Created(r.status)
              /\ orderItems'[r.pk].exists
              /\ orderItems'[r.pk].product = r.data.product
         ELSE /\ r.status = "500:DoesNotExist"
              /\ orderItems' = orderItems]_vars

C9_Witness ==
    /\ last.view = "order-items" /\ last.action = "create"
    /\ "product" \in DOMAIN last.data
    /\ ~products[last.data.product].exists
    /\ last.status = "500:DoesNotExist"

C10_Position(seq, x) == CHOOSE i \in DOMAIN seq : seq[i] = x

\* C10: a serializer built with an allow-list exposes exactly the default fields
\* that are in the list, in the default order and without repetition; built
\* without one it exposes the default fields; a ProductSerializer with the
\* allow-list {id, name} exposes exactly id and name.
C10_DynamicFields ==
    ser.cls # "" =>
      LET D == ModelSerializer_get_field_names(ser.cls)
          out == ser.field_names
      IN  /\ ser.dynamic_fields.is_none => out = D
          /\ ~ser.dynamic_fields.is_none =>
               /\ Range(out) = Range(D) \cap ser.dynamic_fields.value
               /\ \A i, j \in DOMAIN out :
                    i < j => C10_Position(D, out[i]) < C10_Position(D, out[j])
          /\ (/\ ser.cls = "ProductSerializer" /\ ~ser.dynamic_fields.is_none
              /\ ser.dynamic_fields.value = {"id", "name"}) =>
               out = <<"id", "name">>

C10_Witness ==
    /\ ser.cls = "ProductSerializer" /\ ~ser.dynamic_fields.is_none
    /\ ser.dynamic_fields.value = {"id", "name"}
    /\ Len(ser.field_names) = 2

====
